---- MODULE Spec2Model ----
(***************************************************************************)
(* A model of the prompt-manager repository.                               *)
(*                                                                         *)
(* The repository holds three revisions of the MemoryBank class:           *)
(*   "pkg"          prompt_manager/__init__.py                             *)
(*   "memory"       prompt_manager/memory.py                               *)
(*   "memory_bank"  prompt_manager/memory_bank.py                          *)
(* A process works with one of them; impl says which.  All three keep a    *)
(* directory of text files, a flag is_active and a counter current_tokens. *)
(* File texts are TLA+ strings; positions are 0-based as in Python.        *)
(***************************************************************************)
EXTENDS Integers, Sequences, FiniteSets, TLC

VARIABLES
    impl,            \* which MemoryBank class the process uses
    files,           \* the bank directory: file name -> text (domain = existing files)
    is_active,       \* MemoryBank.is_active
    current_tokens,  \* MemoryBank.current_tokens
    err,             \* outcome of the last call: "none" or the exception raised
    last,            \* the last call made: <<name>> and its arguments
    nupd,            \* number of calls so far that rewrote a file section
    base             \* total file length minus current_tokens, as it was after
                     \* the last call other than update_context (history)

\* a PromptManager of prompt_manager/__init__.py working on the same directory
VARIABLES
    tasks,           \* PromptManager.tasks: the Task objects, in insertion order
    store,           \* the data files of the directory: "tasks.yaml" and
                     \* "project_data.yaml", each mapped to its parsed content
                     \* (domain = existing files)
    now              \* the clock: one tick per call on the manager

\* the task store behind the command line of prompt_manager/cli
VARIABLES
    cli_tasks        \* the task file the commands load and save:
                     \* title -> Task record (domain = stored tasks)

\* one run of a command of prompt_manager/cli/__init__.py
VARIABLES
    exit_code,       \* the exit code of the last command run
    out              \* the lines the last command run wrote to standard output

\* processes that each run one add_task on their own PromptManager over the
\* same directory
VARIABLES
    procs            \* process -> [pc, tasks, name, result]: where the process
                     \* is, the store of its manager, the name it adds, and
                     \* how its add_task ended

\* an LLMEnhancement of prompt_manager/llm_enhancement.py
VARIABLES
    pr_suggestions,  \* LLMEnhancement.pr_suggestions
    returned         \* what the last suggest_pull_request call returned:
                     \* None or Some(suggestion)

\* a PromptManager of prompt_manager/manager.py
VARIABLES
    py_tasks,        \* PromptManager.tasks: the Task objects, in insertion order
    py_file          \* the parsed content of its tasks.yaml: a list of records

mgr == <<tasks, store, now>>

llm == <<pr_suggestions, returned>>

py == <<py_tasks, py_file>>

cmd == <<exit_code, out>>

vars == <<impl, files, is_active, current_tokens, err, last, nupd, base,
          tasks, store, now, cli_tasks, exit_code, out, procs,
          pr_suggestions, returned, py_tasks, py_file>>

----------------------------------------------------------------------------
(* Bounds of the model *)

\* update_context calls that write, per behaviour
MaxUpdates == 4
\* value given to the constructor's max_tokens; caps manual increments
MaxTokens == 5

----------------------------------------------------------------------------
(* Python's str operations *)

\* s[a:b] for 0 <= a, b
Slice(s, a, b) == SubSeq(s, a + 1, IF b > Len(s) THEN Len(s) ELSE b)

SetMin(S) == CHOOSE x \in S : \A y \in S : x <= y

\* s.find(sub, start): lowest index >= start at which sub occurs, or -1
Find(s, sub, start) ==
    LET hits == {i \in start..(Len(s) - Len(sub)) : Slice(s, i, i + Len(sub)) = sub}
    IN  IF hits = {} THEN -1 ELSE SetMin(hits)

\* the characters str.strip()/rstrip() remove
Whitespace == {" ", "\n", "\t", "\r"}

RECURSIVE Rstrip(_)
Rstrip(s) ==
    IF Len(s) > 0 /\ Slice(s, Len(s) - 1, Len(s)) \in Whitespace
    THEN Rstrip(Slice(s, 0, Len(s) - 1))
    ELSE s

RECURSIVE Lstrip(_)
Lstrip(s) ==
    IF Len(s) > 0 /\ Slice(s, 0, 1) \in Whitespace
    THEN Lstrip(Slice(s, 1, Len(s)))
    ELSE s

Strip(s) == Lstrip(Rstrip(s))

StartsWith(s, p) == Len(p) <= Len(s) /\ Slice(s, 0, Len(p)) = p

EndsWith(s, p) == Len(p) <= Len(s) /\ Slice(s, Len(s) - Len(p), Len(s)) = p

\* s.split(sep): the pieces of s between occurrences of sep
RECURSIVE Split(_, _)
Split(s, sep) ==
    LET i == Find(s, sep, 0)
    IN  IF i = -1 THEN <<s>>
        ELSE <<Slice(s, 0, i)>> \o Split(Slice(s, i + Len(sep), Len(s)), sep)

RECURSIVE TotalLenOver(_, _)
TotalLenOver(fs, names) ==
    IF names = {} THEN 0
    ELSE LET n == CHOOSE x \in names : TRUE
         IN  Len(fs[n]) + TotalLenOver(fs, names \ {n})

\* total length of the files of a directory
TotalLen(fs) == TotalLenOver(fs, DOMAIN fs)

\* the directory fs with file name holding text
WriteFile(fs, name, text) ==
    [n \in (DOMAIN fs) \cup {name} |-> IF n = name THEN text ELSE fs[n]]

\* mutant of Unlink: no file is removed
UnlinkNothing(fs, names) == fs

\* the directory fs without the files in names
Unlink(fs, names) == [n \in (DOMAIN fs) \ names |-> fs[n]]

\* docs_path.glob("*.md")
GlobMd(fs) == {n \in DOMAIN fs : EndsWith(n, ".md")}

----------------------------------------------------------------------------
(* Inputs *)

\* the MemoryBank classes a process may use
Impls == {"pkg", "memory", "memory_bank"}

\* section arguments
Sections == {"Task", "Task Details"}
\* content arguments
Contents == {"bar", "baz"}

\* update_context calls (file_name, section, content, mode) of the section
\* editor's specification: every section, content and mode on one file
EditorCalls ==
    {<<"productContext.md", s, c, m>> :
        s \in Sections, c \in Contents, m \in {"append", "replace"}}

\* update_context calls of the whole-class specification: one section, and
\* the calls the argument checks are about
BankCalls ==
    {<<"productContext.md", "Task", c, m>> :
        c \in Contents, m \in {"append", "replace"}}
    \cup {<<"invalid.md", "Task", "bar", "append">>,
          <<"project_plan.md", "Tasks", "bar", "replace">>,
          <<"productContext.md", "Task", "bar", "invalid">>}

\* count arguments of increment_tokens / decrement_tokens
TokenCounts == {MaxTokens}

----------------------------------------------------------------------------
(* MemoryBank of prompt_manager/__init__.py *)

required_files ==
    <<"productContext.md", "activeContext.md", "systemPatterns.md",
      "techContext.md", "progress.md">>

RequiredSet == {required_files[i] : i \in DOMAIN required_files}

\* f"# {file[:-3]}\n\n"
InitialText(file) == "# " \o Slice(file, 0, Len(file) - 3) \o "\n\n"

\* mutant of InitializedFiles: the exists() test is dropped, every required
\* file is written anew
InitializedFilesOverwrite(fs) ==
    [n \in (DOMAIN fs) \cup RequiredSet |->
        IF n \in RequiredSet THEN InitialText(n) ELSE fs[n]]

\* the files after initialize(): missing required files are created
InitializedFiles(fs) ==
    [n \in (DOMAIN fs) \cup RequiredSet |->
        IF n \in DOMAIN fs THEN fs[n] ELSE InitialText(n)]

\* MemoryBank.__init__ on the directory as it is
NewBank ==
    /\ impl = "pkg"
    /\ is_active' = FALSE
    /\ current_tokens' = 0
    /\ err' = "none"
    /\ last' = <<"new">>
    /\ UNCHANGED <<impl, files, nupd>>
    /\ base' = TotalLen(files') - current_tokens'

initialize ==
    /\ impl = "pkg"
    /\ files' = InitializedFiles(files)
    /\ is_active' = TRUE
    /\ err' = "none"
    /\ last' = <<"initialize">>
    /\ UNCHANGED <<impl, current_tokens, nupd>>
    /\ base' = TotalLen(files') - current_tokens'

\* new_content of update_context (the section search and the splice)
NewContent(current_content, section, content, mode) ==
    LET section_header == "## " \o section
        section_start == Find(current_content, section_header, 0)
    IN  IF section_start = -1
        THEN Rstrip(current_content) \o "\n\n" \o section_header \o "\n" \o content \o "\n"
        ELSE LET found == Find(current_content, "\n##", section_start + 1)
                 next_section == IF found = -1 THEN Len(current_content) ELSE found
                 section_content ==
                     Rstrip(Slice(current_content, section_start, next_section))
                 new_section ==
                     IF mode = "append"
                     THEN section_content \o "\n" \o content
                     ELSE section_header \o "\n" \o content
             IN  Slice(current_content, 0, section_start)
                     \o new_section
                     \o Slice(current_content, next_section, Len(current_content))

\* the names update_context accepts
AcceptedFiles(fs) == GlobMd(fs)

\* mutant of UpdateSkipped: the is_active test is dropped
UpdateNeverSkipped == FALSE

\* whether update_context returns at once
UpdateSkipped == ~is_active

\* the exception update_context raises for these arguments, or "none"
UpdateError(file_name, mode) ==
    IF file_name \notin AcceptedFiles(files) THEN "ValueError"
    ELSE IF mode \notin {"append", "replace"} THEN "ValueError"
    ELSE "none"

\* mutant of TokenDelta: the size of the change, without its sign
TokenDeltaUnsigned(new_content, current_content) ==
    IF Len(new_content) >= Len(current_content)
    THEN Len(new_content) - Len(current_content)
    ELSE Len(current_content) - Len(new_content)

\* the amount update_context adds to the counter
TokenDelta(new_content, current_content) == Len(new_content) - Len(current_content)

update_context(file_name, section, content, mode) ==
    /\ impl = "pkg"
    /\ last' = <<"update_context", file_name, section, content, mode>>
    /\ IF UpdateSkipped
       THEN /\ err' = "none"
            /\ UNCHANGED <<files, current_tokens, nupd>>
       ELSE IF UpdateError(file_name, mode) # "none"
       THEN /\ err' = UpdateError(file_name, mode)
            /\ UNCHANGED <<files, current_tokens, nupd>>
       ELSE LET current_content == files[file_name]
                new_content == NewContent(current_content, section, content, mode)
            IN  /\ nupd < MaxUpdates
                /\ nupd' = nupd + 1
                /\ current_tokens' =
                       current_tokens + TokenDelta(new_content, current_content)
                /\ files' = WriteFile(files, file_name, new_content)
                /\ err' = "none"
    /\ UNCHANGED <<impl, is_active, base>>

increment_tokens(count) ==
    /\ impl = "pkg"
    /\ current_tokens + count <= MaxTokens
    /\ current_tokens' = current_tokens + count
    /\ err' = "none"
    /\ last' = <<"increment_tokens">>
    /\ UNCHANGED <<impl, files, is_active, nupd>>
    /\ base' = TotalLen(files') - current_tokens'

decrement_tokens(count) ==
    /\ impl = "pkg"
    /\ current_tokens' = (IF current_tokens - count > 0 THEN current_tokens - count ELSE 0)
    /\ err' = "none"
    /\ last' = <<"decrement_tokens">>
    /\ UNCHANGED <<impl, files, is_active, nupd>>
    /\ base' = TotalLen(files') - current_tokens'

\* mutant of reset: the files are removed but is_active is left as it was
reset_stays_active ==
    /\ impl = "pkg"
    /\ current_tokens' = 0
    /\ files' = Unlink(files, RequiredSet)
    /\ err' = "none"
    /\ last' = <<"reset">>
    /\ UNCHANGED <<impl, is_active, nupd>>
    /\ base' = TotalLen(files') - current_tokens'

reset ==
    /\ impl = "pkg"
    /\ is_active' = FALSE
    /\ current_tokens' = 0
    /\ files' = Unlink(files, RequiredSet)
    /\ err' = "none"
    /\ last' = <<"reset">>
    /\ UNCHANGED <<impl, nupd>>
    /\ base' = TotalLen(files') - current_tokens'

\* PromptManager.project_name and tasks the plan is written from
ProjectName == "P"
PlanTasks == {<<[name |-> "T", status |-> "pending", description |-> "d"]>>}

RECURSIVE PlanTaskLines(_)
PlanTaskLines(ts) ==
    IF ts = <<>> THEN ""
    ELSE "### " \o Head(ts).name \o "\n"
         \o "- Status: " \o Head(ts).status \o "\n"
         \o "- Description: " \o Head(ts).description \o "\n\n"
         \o PlanTaskLines(Tail(ts))

\* PromptManager._update_project_plan: (re)writes project_plan.md in docs_path.
\* The manager's constructor has initialized its bank, and the manager never
\* calls reset, so its bank is active.
update_project_plan(ts) ==
    /\ impl = "pkg"
    /\ is_active
    /\ files' = WriteFile(files, "project_plan.md",
                          "# " \o ProjectName \o "\n\n## Tasks\n" \o PlanTaskLines(ts))
    /\ err' = "none"
    /\ last' = <<"update_project_plan">>
    /\ UNCHANGED <<impl, is_active, current_tokens, nupd>>
    /\ base' = TotalLen(files') - current_tokens'

----------------------------------------------------------------------------
(* MemoryBank of prompt_manager/memory.py *)

memory_required_files ==
    <<"productContext.md", "activeContext.md", "systemPatterns.md",
      "techContext.md", "progress.md", "commandHistory.md">>

MemoryRequiredSet == {memory_required_files[i] : i \in DOMAIN memory_required_files}

\* default_content of initialize and update_context
default_content ==
    [n \in MemoryRequiredSet |->
       CASE n = "productContext.md" ->
              [header |-> "# Product Context",
               description |-> "Track product requirements, business context, and high-level objectives."]
         [] n = "activeContext.md" ->
              [header |-> "# Active Context",
               description |-> "Track current development tasks, priorities, and immediate goals."]
         [] n = "systemPatterns.md" ->
              [header |-> "# System Patterns",
               description |-> "Document system architecture, design patterns, and key technical decisions."]
         [] n = "techContext.md" ->
              [header |-> "# Tech Context",
               description |-> "Track technical implementation details, dependencies, and constraints."]
         [] n = "progress.md" ->
              [header |-> "# Progress",
               description |-> "Track development milestones, achievements, and key updates."]
         [] n = "commandHistory.md" ->
              [header |-> "# Command History",
               description |-> "Track command executions, results, and system interactions."]]

\* what initialize() leaves in one required file
MemoryInitializedText(fs, file_name) ==
    LET content == default_content[file_name]
        existing_content == IF file_name \in DOMAIN fs THEN Strip(fs[file_name]) ELSE ""
    IN  IF file_name \in DOMAIN fs /\ existing_content # ""
        THEN IF ~StartsWith(existing_content, content.header)
             THEN content.header \o "\n\n" \o existing_content \o "\n"
             ELSE fs[file_name]
        ELSE content.header \o "\n\n" \o content.description \o "\n"

memory_initialize ==
    /\ impl = "memory"
    /\ files' = [n \in (DOMAIN files) \cup MemoryRequiredSet |->
                    IF n \in MemoryRequiredSet
                    THEN MemoryInitializedText(files, n) ELSE files[n]]
    /\ is_active' = TRUE
    /\ err' = "none"
    /\ last' = <<"initialize">>
    /\ UNCHANGED <<impl, current_tokens, nupd, base>>

\* existing_content of update_context: the file's text, stripped, with the
\* default header put in front when it is missing
MemoryExistingContent(text, file_name) ==
    LET existing_content == Strip(text)
        d == default_content[file_name]
    IN  IF existing_content = ""
        THEN d.header \o "\n\n" \o d.description
        ELSE IF ~StartsWith(existing_content, d.header)
        THEN d.header \o "\n\n" \o d.description \o "\n\n" \o existing_content
        ELSE existing_content

\* new_content of update_context
MemoryNewContent(existing_content, section, content, mode) ==
    IF mode = "replace"
    THEN LET section_start == Find(existing_content, "\n## " \o section \o "\n", 0)
         IN  IF section_start = -1
             THEN existing_content \o "\n\n## " \o section \o "\n" \o content
             ELSE LET found == Find(existing_content, "\n## ", section_start + 1)
                      next_section_start ==
                          IF found = -1 THEN Len(existing_content) ELSE found
                  IN  Slice(existing_content, 0, section_start)
                          \o "\n## " \o section \o "\n" \o content
                          \o Slice(existing_content, next_section_start,
                                   Len(existing_content))
    ELSE existing_content \o "\n\n## " \o section \o "\n" \o content

\* the body of update_context: the effect on files and err
MemoryUpdate(file_name, section, content, mode) ==
    IF file_name \notin DOMAIN files
    THEN /\ err' = "ValueError"
         /\ UNCHANGED <<files, nupd>>
    ELSE IF file_name \notin DOMAIN default_content
    THEN /\ err' = "KeyError"
         /\ UNCHANGED <<files, nupd>>
    ELSE /\ nupd < MaxUpdates
         /\ nupd' = nupd + 1
         /\ files' = WriteFile(files, file_name,
                MemoryNewContent(MemoryExistingContent(files[file_name], file_name),
                                 section, content, mode))
         /\ err' = "none"

memory_update_context(file_name, section, content, mode) ==
    /\ impl = "memory"
    /\ MemoryUpdate(file_name, section, content, mode)
    /\ last' = <<"update_context", file_name, section, content, mode>>
    /\ UNCHANGED <<impl, is_active, current_tokens, base>>

\* task_content of update_task ("" stands for None as well: both are falsy)
TaskContent(title, description, priority) ==
    "\n## Task: " \o title \o "\n"
        \o (IF priority # "" THEN "Priority: " \o priority \o "\n" ELSE "")
        \o (IF description # "" THEN "Description: " \o description \o "\n" ELSE "")

memory_update_task(title, description, priority) ==
    /\ impl = "memory"
    /\ IF ~is_active
       THEN /\ err' = "none"
            /\ UNCHANGED <<files, nupd>>
       ELSE MemoryUpdate("progress.md", "Task_" \o title,
                         TaskContent(title, description, priority), "replace")
    /\ last' = <<"update_task", title, description, priority>>
    /\ UNCHANGED <<impl, is_active, current_tokens, base>>

memory_reset ==
    /\ impl = "memory"
    /\ current_tokens' = 0
    /\ files' = Unlink(files, MemoryRequiredSet)
    /\ is_active' = FALSE
    /\ err' = "none"
    /\ last' = <<"reset">>
    /\ UNCHANGED <<impl, nupd, base>>

\* update_context calls made on this class
MemoryCalls ==
    {<<"progress.md", "Foo", c, m>> : c \in Contents, m \in {"append", "replace"}}
    \cup {<<"invalid.md", "Foo", "bar", "append">>}

\* update_task calls made on this class
TaskTitles == {"T"}
TaskDescriptions == {"", "d1"}
TaskPriorities == {"high", "low"}

----------------------------------------------------------------------------
(* MemoryBank of prompt_manager/memory_bank.py: the required files are in  *)
(* data_dir, the context file in docs_path = data_dir/docs                 *)

memory_bank_required_files == <<"context.json", "memories.json", "tokens.json">>

MemoryBankRequiredSet ==
    {memory_bank_required_files[i] : i \in DOMAIN memory_bank_required_files}

\* docs_path / filename
DocsPath(filename) == "docs/" \o filename

memory_bank_initialize ==
    /\ impl = "memory_bank"
    /\ files' =
         [n \in (DOMAIN files) \cup MemoryBankRequiredSet
                    \cup {DocsPath("productContext.md")} |->
            IF n \in DOMAIN files THEN files[n]
            ELSE IF n \in MemoryBankRequiredSet
            THEN "# " \o Slice(n, 0, Len(n) - 3) \o "\n\n"
            ELSE "# Product Context\n\n"]
    /\ is_active' = TRUE
    /\ err' = "none"
    /\ last' = <<"initialize">>
    /\ UNCHANGED <<impl, current_tokens, nupd, base>>

RECURSIVE JoinSections(_)
\* the loop  for s in other_sections: new_content += f"\n## {s}"
JoinSections(other_sections) ==
    IF other_sections = <<>> THEN ""
    ELSE "\n## " \o Head(other_sections) \o JoinSections(Tail(other_sections))

\* new_content of update_context
MemoryBankNewContent(current, section, content, mode) ==
    IF mode = "append"
    THEN current \o "\n## " \o section \o "\n" \o content \o "\n"
    ELSE LET sections == Split(current, "\n## ")
             header == Head(sections)
             Keep(x) == ~StartsWith(x, section)
             other_sections == SelectSeq(Tail(sections), Keep)
         IN  header \o "\n## " \o section \o "\n" \o content \o "\n"
                 \o JoinSections(other_sections)

\* the exception update_context raises for these arguments, or "none"
MemoryBankUpdateError(filename, mode) ==
    IF ~EndsWith(filename, ".md") THEN "ValueError"
    ELSE IF mode \notin {"replace", "append"} THEN "ValueError"
    ELSE IF filename # "productContext.md" THEN "ValueError"
    ELSE "none"

memory_bank_update_context(filename, section, content, mode) ==
    /\ impl = "memory_bank"
    /\ last' = <<"update_context", filename, section, content, mode>>
    /\ IF ~is_active
       THEN /\ err' = "none"
            /\ UNCHANGED <<files, nupd>>
       ELSE IF MemoryBankUpdateError(filename, mode) # "none"
       THEN /\ err' = MemoryBankUpdateError(filename, mode)
            /\ UNCHANGED <<files, nupd>>
       ELSE LET file_path == DocsPath(filename)
                current == IF file_path \in DOMAIN files
                           THEN files[file_path]
                           ELSE "# " \o Slice(filename, 0, Len(filename) - 3) \o "\n\n"
            IN  /\ nupd < MaxUpdates
                /\ nupd' = nupd + 1
                /\ files' = WriteFile(files, file_path,
                                MemoryBankNewContent(current, section, content, mode))
                /\ err' = "none"
    /\ UNCHANGED <<impl, is_active, current_tokens, base>>

memory_bank_reset ==
    /\ impl = "memory_bank"
    /\ last' = <<"reset">>
    /\ err' = "none"
    /\ IF ~is_active
       THEN UNCHANGED <<files, current_tokens, is_active>>
       ELSE /\ files' =
                 [n \in ((DOMAIN files) \cup MemoryBankRequiredSet)
                            \ {m \in DOMAIN files :
                                 StartsWith(m, "docs/") /\ EndsWith(m, ".md")} |->
                    IF n \in MemoryBankRequiredSet
                    THEN "# " \o Slice(n, 0, Len(n) - 5) \o "\n\n"
                    ELSE files[n]]
            /\ current_tokens' = 0
            /\ is_active' = FALSE
    /\ UNCHANGED <<impl, nupd, base>>

\* update_context calls made on this class
MemoryBankCalls ==
    {<<"productContext.md", s, "bar", m>> :
        s \in Sections, m \in {"append", "replace"}}
    \cup {<<"notes.txt", "Task", "bar", "append">>,
          <<"progress.md", "Task", "bar", "append">>,
          <<"productContext.md", "Task", "bar", "invalid">>}

----------------------------------------------------------------------------
(* Task and TaskStatus of prompt_manager/__init__.py *)

\* calls on the manager, per behaviour
MaxCalls == 3

\* an optional argument: << >> is None, <<v>> is the value v
None == << >>
Some(v) == <<v>>

\* the enumeration: member name -> value
TaskStatus ==
    [PENDING |-> "pending", IN_PROGRESS |-> "in_progress",
     COMPLETED |-> "completed", FAILED |-> "failed"]

\* whether TaskStatus(value) finds a member
IsStatusValue(value) == \E m \in DOMAIN TaskStatus : TaskStatus[m] = value

\* TaskStatus(value): the member with that value
TaskStatusOf(value) == CHOOSE m \in DOMAIN TaskStatus : TaskStatus[m] = value

LowerLetters == "abcdefghijklmnopqrstuvwxyz"
UpperLetters == "ABCDEFGHIJKLMNOPQRSTUVWXYZ"

\* str.upper()
RECURSIVE Upper(_)
Upper(s) ==
    IF s = "" THEN ""
    ELSE LET c == Slice(s, 0, 1)
             i == Find(LowerLetters, c, 0)
         IN  (IF i = -1 THEN c ELSE Slice(UpperLetters, i, i + 1))
                 \o Upper(Slice(s, 1, Len(s)))

\* str.lower()
RECURSIVE Lower(_)
Lower(s) ==
    IF s = "" THEN ""
    ELSE LET c == Slice(s, 0, 1)
             i == Find(UpperLetters, c, 0)
         IN  (IF i = -1 THEN c ELSE Slice(LowerLetters, i, i + 1))
                 \o Lower(Slice(s, 1, Len(s)))

\* sep.join(parts)
RECURSIVE Join(_, _)
Join(parts, sep) ==
    IF parts = <<>> THEN ""
    ELSE IF Len(parts) = 1 THEN parts[1]
    ELSE parts[1] \o sep \o Join(Tail(parts), sep)

\* the values the clock takes
Clock == 0..MaxCalls

\* datetime.isoformat() and datetime.fromisoformat() of the time t ticks
\* after the start
isoformat(t) == "T+" \o ToString(t)
fromisoformat(s) == CHOOSE t \in Clock : isoformat(t) = s

\* Task(name, description, prompt_template, priority, status) built at time t;
\* the uuid is the time of construction, which no two new tasks share
Task(name, description, prompt_template, priority, status, t) ==
    [id |-> isoformat(t), name |-> name, description |-> description,
     prompt_template |-> prompt_template, priority |-> priority,
     status |-> status, status_notes |-> <<>>,
     created_at |-> t, updated_at |-> t]

\* mutant of update_status: `if note` is taken as `if note is not None`
update_status_appends_empty_note(task, status, note, t) ==
    [task EXCEPT !.status = status,
                 !.status_notes = IF note # None THEN Append(@, note[1]) ELSE @,
                 !.updated_at = t]

\* Task.update_status(status, note) at time t
update_status(task, status, note, t) ==
    [task EXCEPT !.status = status,
                 !.status_notes = IF note # None /\ note[1] # ""
                                  THEN Append(@, note[1]) ELSE @,
                 !.updated_at = t]

to_dict(task) ==
    [id |-> task.id, name |-> task.name, description |-> task.description,
     prompt_template |-> task.prompt_template, priority |-> task.priority,
     status |-> TaskStatus[task.status], status_notes |-> task.status_notes,
     created_at |-> isoformat(task.created_at),
     updated_at |-> isoformat(task.updated_at)]

from_dict(data) ==
    [id |-> data.id, name |-> data.name, description |-> data.description,
     prompt_template |-> data.prompt_template, priority |-> data.priority,
     status |-> TaskStatusOf(data.status), status_notes |-> data.status_notes,
     created_at |-> fromisoformat(data.created_at),
     updated_at |-> fromisoformat(data.updated_at)]

\* BoltTask(name, description, prompt_template, framework, dependencies,
\* ui_components, api_endpoints, priority, status) built at time t
BoltTask(name, description, prompt_template, framework, dependencies, ui_components, api_endpoints, priority, status, t) ==
    [id |-> isoformat(t), name |-> name, description |-> description,
     prompt_template |-> prompt_template, priority |-> priority,
     status |-> status, status_notes |-> <<>>,
     created_at |-> t, updated_at |-> t,
     framework |-> framework, dependencies |-> dependencies,
     ui_components |-> ui_components, api_endpoints |-> api_endpoints]

\* isinstance(task, BoltTask)
IsBoltTask(task) == "framework" \in DOMAIN task

\* BoltTask.to_dict
bolt_to_dict(task) ==
    [id |-> task.id, name |-> task.name, description |-> task.description,
     prompt_template |-> task.prompt_template, priority |-> task.priority,
     status |-> TaskStatus[task.status], status_notes |-> task.status_notes,
     created_at |-> isoformat(task.created_at),
     updated_at |-> isoformat(task.updated_at),
     framework |-> task.framework, dependencies |-> task.dependencies,
     ui_components |-> task.ui_components, api_endpoints |-> task.api_endpoints]

\* task.to_dict(), by the class of the task
task_to_dict(task) == IF IsBoltTask(task) THEN bolt_to_dict(task) ELSE to_dict(task)

----------------------------------------------------------------------------
(* PromptManager of prompt_manager/__init__.py *)

\* a dict keyed by task name that keeps insertion order: a sequence of
\* Task records with distinct names
Names(ts) == {ts[i].name : i \in DOMAIN ts}
Get(ts, name) == ts[CHOOSE i \in DOMAIN ts : ts[i].name = name]
\* ts[name] = task
Put(ts, name, task) ==
    IF name \in Names(ts)
    THEN [i \in DOMAIN ts |-> IF ts[i].name = name THEN task ELSE ts[i]]
    ELSE Append(ts, task)
\* mutant of Remove: the whole dict is cleared
RemoveAll(ts, name) == <<>>

\* del ts[name]
Remove(ts, name) == SelectSeq(ts, LAMBDA t : t.name # name)

\* the task names of the model, in the order yaml.dump sorts keys
SortedNames == <<"A", "B">>
TaskNames == {SortedNames[i] : i \in DOMAIN SortedNames}

\* PromptManager.load_tasks: the tasks of tasks.yaml replace the store; without
\* the file the store stays as it is
load_tasks(st, ts) ==
    IF "tasks.yaml" \in DOMAIN st
    THEN LET data == st["tasks.yaml"]
             keys == SelectSeq(SortedNames, LAMBDA n : n \in DOMAIN data)
         IN  [i \in DOMAIN keys |-> from_dict(data[keys[i]])]
    ELSE ts

\* save_tasks that keeps the stored tasks it does not hold
save_tasks_merging(st, ts) ==
    WriteFile(st, "tasks.yaml",
              [n \in Names(ts) \cup (IF "tasks.yaml" \in DOMAIN st
                                     THEN DOMAIN st["tasks.yaml"] ELSE {}) |->
                  IF n \in Names(ts) THEN task_to_dict(Get(ts, n))
                  ELSE st["tasks.yaml"][n]])

\* PromptManager.save_tasks
save_tasks(st, ts) ==
    WriteFile(st, "tasks.yaml", [n \in Names(ts) |-> task_to_dict(Get(ts, n))])

\* PromptManager.save_project
save_project(st, ts) ==
    WriteFile(st, "project_data.yaml",
              [project_name |-> ProjectName,
               tasks |-> [i \in DOMAIN ts |-> task_to_dict(ts[i])]])

\* the lines _update_project_plan writes for the tasks
PlanView(ts) ==
    [i \in DOMAIN ts |-> [name |-> ts[i].name, status |-> TaskStatus[ts[i].status],
                          description |-> ts[i].description]]

\* the code fence of Markdown (three grave accents, which a string of this
\* notation cannot hold) is written as three tildes
Fence == "~~~"

RECURSIVE BreakdownLines(_)
BreakdownLines(ts) ==
    IF ts = <<>> THEN ""
    ELSE "## " \o Head(ts).name \o "\n"
         \o "Description: " \o Head(ts).description \o "\n\n"
         \o "### Prompt Template\n" \o Fence \o "\n"
         \o Head(ts).prompt_template
         \o "\n" \o Fence \o "\n\n"
         \o BreakdownLines(Tail(ts))

RECURSIVE ProgressLines(_)
ProgressLines(ts) ==
    IF ts = <<>> THEN ""
    ELSE "## " \o Head(ts).name \o "\n"
         \o "Status: " \o TaskStatus[Head(ts).status] \o "\n\n"
         \o "### Progress Notes\n"
         \o Join(Head(ts).status_notes, "\n")
         \o "\n"
         \o ProgressLines(Tail(ts))

RECURSIVE MermaidLines(_)
MermaidLines(ts) ==
    IF ts = <<>> THEN ""
    ELSE "    " \o Head(ts).name \o "[" \o Head(ts).name \o "]:::status"
         \o TaskStatus[Head(ts).status] \o "\n"
         \o MermaidLines(Tail(ts))

\* PromptManager.update_markdown_files: the four reports are written anew
update_markdown_files(fs, ts) ==
    LET plan == "# " \o ProjectName \o "\n\n## Tasks\n" \o PlanTaskLines(PlanView(ts))
        breakdown == "# Task Breakdown\n\n" \o BreakdownLines(ts)
        progress == "# Progress Tracking - " \o ProjectName \o "\n\n" \o ProgressLines(ts)
        mermaid == "# Project Workflow Diagrams\n\n"
                   \o "## Task Status\n" \o Fence \o "mermaid\ngraph TD\n"
                   \o MermaidLines(ts) \o Fence \o "\n\n"
    IN  WriteFile(WriteFile(WriteFile(WriteFile(fs,
            "project_plan.md", plan),
            "task_breakdown.md", breakdown),
            "progress_tracking.md", progress),
            "mermaid_diagrams.md", mermaid)

\* MemoryBank.check_token_limit
check_token_limit == current_tokens >= MaxTokens

\* a call on the manager that changes nothing but the clock
Raises(exception, call) ==
    /\ err' = exception
    /\ last' = call
    /\ now' = now + 1
    /\ UNCHANGED <<impl, files, is_active, current_tokens, nupd, base,
                   tasks, store, cli_tasks>>

\* PromptManager(project_name) on the directory as it is: a new bank is made
\* and initialized, then tasks.yaml is loaded into an empty store
NewPromptManager ==
    /\ impl = "pkg"
    /\ now < MaxCalls
    /\ now' = now + 1
    /\ files' = InitializedFiles(files)
    /\ is_active' = TRUE
    /\ current_tokens' = 0
    /\ tasks' = load_tasks(store, <<>>)
    /\ err' = "none"
    /\ last' = <<"PromptManager">>
    /\ UNCHANGED <<impl, nupd, store, cli_tasks>>
    /\ base' = TotalLen(files') - current_tokens'

\* the exception add_task raises for these arguments, or "none";
\* name_or_task is [kind |-> "str", name |-> n] or [kind |-> "Task", task |-> t]
AddTaskError(name_or_task, description, prompt_template, priority) ==
    IF name_or_task.kind = "Task"
    THEN IF name_or_task.task.priority < 1 THEN "ValueError"
         ELSE IF name_or_task.task.name \in Names(tasks) THEN "ValueError"
         ELSE "none"
    ELSE IF description \in {None, Some("")} \/ prompt_template \in {None, Some("")}
    THEN "ValueError"
    ELSE IF priority < 1 THEN "ValueError"
    ELSE IF name_or_task.name \in Names(tasks) THEN "ValueError"
    ELSE "none"

add_task(name_or_task, description, prompt_template, priority) ==
    /\ impl = "pkg"
    /\ is_active
    /\ now < MaxCalls
    /\ LET call == <<"add_task", name_or_task, description, prompt_template, priority>>
           error == AddTaskError(name_or_task, description, prompt_template, priority)
           task == IF name_or_task.kind = "Task" THEN name_or_task.task
                   ELSE Task(name_or_task.name, description[1], prompt_template[1],
                             priority, "PENDING", now + 1)
       IN  IF error # "none" THEN Raises(error, call)
           ELSE /\ tasks' = Put(tasks, task.name, task)
                /\ store' = save_tasks(store, tasks')
                /\ now' = now + 1
                /\ err' = "none"
                /\ last' = call
                /\ UNCHANGED <<impl, files, is_active, current_tokens, nupd, base,
                               cli_tasks>>

\* PromptManager.get_task: whether it raises KeyError
NotFound(name) == name \notin Names(tasks)

\* the document export_tasks writes
Exported(ts) ==
    [project_name |-> ProjectName,
     tasks |-> [i \in DOMAIN ts |-> task_to_dict(ts[i])]]

export_tasks(path) ==
    /\ impl = "pkg"
    /\ is_active
    /\ now < MaxCalls
    /\ store' = WriteFile(store, path, Exported(tasks))
    /\ now' = now + 1
    /\ err' = "none"
    /\ last' = <<"export_tasks", path>>
    /\ UNCHANGED <<impl, files, is_active, current_tokens, nupd, base, tasks,
                   cli_tasks>>

\* the store ts after the records of the document data are imported, in order
RECURSIVE Imported(_, _)
Imported(records, ts) ==
    IF records = <<>> THEN ts
    ELSE Imported(Tail(records),
                  Put(ts, Head(records).name, from_dict(Head(records))))

import_tasks(path) ==
    /\ impl = "pkg"
    /\ is_active
    /\ now < MaxCalls
    /\ IF path \notin DOMAIN store
       THEN Raises("FileNotFoundError", <<"import_tasks", path>>)
       ELSE /\ tasks' = Imported(store[path].tasks, tasks)
            /\ store' = save_tasks(store, tasks')
            /\ now' = now + 1
            /\ err' = "none"
            /\ last' = <<"import_tasks", path>>
            /\ UNCHANGED <<impl, files, is_active, current_tokens, nupd, base,
                           cli_tasks>>

get_task(name) ==
    /\ impl = "pkg"
    /\ is_active
    /\ now < MaxCalls
    /\ IF NotFound(name) THEN Raises("KeyError", <<"get_task", name>>)
       ELSE Raises("none", <<"get_task", name>>)

\* the task as update_task leaves it
UpdatedTask(task, description, prompt_template, priority) ==
    [task EXCEPT
        !.description = IF description # None THEN description[1] ELSE @,
        !.prompt_template = IF prompt_template # None THEN prompt_template[1] ELSE @,
        !.priority = IF priority # None THEN priority[1] ELSE @]

update_task(name, description, prompt_template, priority) ==
    /\ impl = "pkg"
    /\ is_active
    /\ now < MaxCalls
    /\ LET call == <<"update_task", name, description, prompt_template, priority>>
       IN  IF NotFound(name) THEN Raises("KeyError", call)
           ELSE /\ tasks' = Put(tasks, name,
                                UpdatedTask(Get(tasks, name), description,
                                            prompt_template, priority))
                /\ store' = save_tasks(store, tasks')
                /\ now' = now + 1
                /\ err' = "none"
                /\ last' = call
                /\ UNCHANGED <<impl, files, is_active, current_tokens, nupd, base,
                               cli_tasks>>

\* the member update_task_status works with, or "ValueError": status is
\* <<"TaskStatus", member>> or <<"str", string>>
StatusArgument(status) ==
    IF status[1] = "str"
    THEN IF IsStatusValue(Upper(status[2]))
         THEN TaskStatusOf(Upper(status[2])) ELSE "ValueError"
    ELSE status[2]

update_task_status(name, status, notes) ==
    /\ impl = "pkg"
    /\ is_active
    /\ now < MaxCalls
    /\ LET call == <<"update_task_status", name, status, notes>>
       IN  IF NotFound(name) THEN Raises("KeyError", call)
           ELSE IF StatusArgument(status) = "ValueError" THEN Raises("ValueError", call)
           ELSE /\ tasks' = Put(tasks, name,
                                update_status(Get(tasks, name), StatusArgument(status),
                                              notes, now + 1))
                /\ store' = save_tasks(store, tasks')
                /\ now' = now + 1
                /\ err' = "none"
                /\ last' = call
                /\ UNCHANGED <<impl, files, is_active, current_tokens, nupd, base,
                               cli_tasks>>

delete_task(name) ==
    /\ impl = "pkg"
    /\ is_active
    /\ now < MaxCalls
    /\ LET call == <<"delete_task", name>>
       IN  IF NotFound(name) THEN Raises("KeyError", call)
           ELSE /\ tasks' = Remove(tasks, name)
                /\ store' = save_tasks(store, tasks')
                /\ now' = now + 1
                /\ err' = "none"
                /\ last' = call
                /\ UNCHANGED <<impl, files, is_active, current_tokens, nupd, base,
                               cli_tasks>>

add_task_to_project(name, description, prompt_template) ==
    /\ impl = "pkg"
    /\ is_active
    /\ now < MaxCalls
    /\ tasks' = Put(tasks, name,
                    Task(name, description, prompt_template, 1, "PENDING", now + 1))
    /\ files' = update_markdown_files(files, tasks')
    /\ store' = save_project(store, tasks')
    /\ now' = now + 1
    /\ err' = "none"
    /\ last' = <<"add_task_to_project", name, description, prompt_template>>
    /\ UNCHANGED <<impl, is_active, current_tokens, nupd, cli_tasks>>
    /\ base' = TotalLen(files') - current_tokens'

update_progress(task_name, status, note) ==
    /\ impl = "pkg"
    /\ is_active
    /\ now < MaxCalls
    /\ LET call == <<"update_progress", task_name, status, note>>
       IN  IF NotFound(task_name) THEN Raises("KeyError", call)
           ELSE /\ tasks' = Put(tasks, task_name,
                                update_status(Get(tasks, task_name), status,
                                              note, now + 1))
                /\ files' = update_markdown_files(files, tasks')
                /\ store' = save_project(store, tasks')
                /\ now' = now + 1
                /\ err' = "none"
                /\ last' = call
                /\ UNCHANGED <<impl, is_active, current_tokens, nupd, cli_tasks>>
                /\ base' = TotalLen(files') - current_tokens'

\* "error" in execution_result.lower()
IsErrorResult(execution_result) == Find(Lower(execution_result), "error", 0) # -1

\* the bank b = [files, current_tokens] of the manager after
\* memory_bank.update_context(file_name, section, content); the manager's
\* bank is active and holds the required files, which are the files it names
ContextUpdated(b, file_name, section, content) ==
    IF UpdateSkipped \/ UpdateError(file_name, "append") # "none" THEN b
    ELSE LET current_content == b.files[file_name]
             new_content == NewContent(current_content, section, content, "append")
         IN  [files |-> WriteFile(b.files, file_name, new_content),
              current_tokens |->
                  b.current_tokens + TokenDelta(new_content, current_content)]

\* PromptManager._handle_memory_reset
HandledMemoryReset(b, ts) ==
    LET active_tasks == SelectSeq(ts, LAMBDA t : t.status = "IN_PROGRESS")
        next_steps ==
            Join([i \in DOMAIN active_tasks |->
                     "- Continue " \o active_tasks[i].name \o ": "
                         \o active_tasks[i].description], "\n")
        b1 == ContextUpdated(b, "activeContext.md", "Next Steps", next_steps)
        b2 == ContextUpdated(b1, "progress.md", "In Progress",
                  Join([i \in DOMAIN ts |->
                           "- " \o ts[i].name \o ": " \o TaskStatus[ts[i].status]], "\n"))
    IN  [b2 EXCEPT !.current_tokens = 0]

\* the exception _attempt_debugging ends with: _get_debug_prompt opens
\* debugging_prompts.md, and the dict a debugging layer returns has no
\* attribute success
DebugError(fs) ==
    IF "debugging_prompts.md" \in DOMAIN fs THEN "AttributeError"
    ELSE "FileNotFoundError"

\* str(e) of that exception
DebugErrorMessage(fs) ==
    IF "debugging_prompts.md" \in DOMAIN fs
    THEN "'dict' object has no attribute 'success'"
    ELSE "[Errno 2] No such file or directory: 'debugging_prompts.md'"

\* the bank after PromptManager._handle_task_failure, up to the exception
HandledTaskFailure(b, task, error_message) ==
    ContextUpdated(b, "activeContext.md", "Recent Changes",
                   "- Failed: " \o task.name \o "\n  Error: " \o error_message)

\* mutant of TokenLimitReturn: execute_task goes on at the cap
TokenLimitIgnored == FALSE

\* whether execute_task handles a memory reset and returns
TokenLimitReturn == check_token_limit

execute_task(task_name, execution_result) ==
    /\ impl = "pkg"
    /\ is_active
    /\ now < MaxCalls
    /\ LET call == <<"execute_task", task_name, execution_result>>
           b == [files |-> files, current_tokens |-> current_tokens]
       IN  IF TokenLimitReturn
           THEN LET b1 == HandledMemoryReset(b, tasks)
                IN  /\ files' = b1.files
                    /\ current_tokens' = b1.current_tokens
                    /\ err' = "none"
                    /\ UNCHANGED <<tasks, store>>
                    /\ last' = call
                    /\ now' = now + 1
                    /\ UNCHANGED <<impl, is_active, nupd, cli_tasks>>
                    /\ base' = TotalLen(files') - current_tokens'
           ELSE IF NotFound(task_name) THEN Raises("KeyError", call)
           ELSE LET task == Get(tasks, task_name)
                    b1 == ContextUpdated(b, "activeContext.md", "Current Tasks",
                              "- " \o task_name \o ": " \o task.description)
                IN  /\ IF IsErrorResult(execution_result)
                       THEN \* _handle_task_failure raises inside the try block;
                            \* the handler calls it again and the exception leaves
                            LET b2 == HandledTaskFailure(b1, task, execution_result)
                                b3 == HandledTaskFailure(b2, task, DebugErrorMessage(files))
                            IN  /\ files' = b3.files
                                /\ current_tokens' = b3.current_tokens
                                /\ err' = DebugError(files)
                                /\ UNCHANGED <<tasks, store>>
                       ELSE LET b2 == ContextUpdated(b1, "progress.md", "Completed",
                                          "- " \o task_name \o ": " \o execution_result)
                            IN  /\ tasks' = Put(tasks, task_name,
                                                update_status(task, "COMPLETED",
                                                    Some(execution_result), now + 1))
                                /\ store' = save_project(store, tasks')
                                /\ files' = update_markdown_files(b2.files, tasks')
                                /\ current_tokens' = b2.current_tokens
                                /\ err' = "none"
                    /\ last' = call
                    /\ now' = now + 1
                    /\ UNCHANGED <<impl, is_active, nupd, cli_tasks>>
                    /\ base' = TotalLen(files') - current_tokens'

(* Inputs of the manager *)

AddTaskCalls ==
    {<<[kind |-> "str", name |-> n], Some("d"), Some("t"), p>> :
        n \in TaskNames, p \in {0, 2}}
    \cup {<<[kind |-> "str", name |-> "A"], None, Some("t"), 1>>,
          <<[kind |-> "Task", task |-> Task("B", "", "", 3, "PENDING", 0)],
            None, None, 1>>,
          <<[kind |-> "Task",
             task |-> BoltTask("A", "d", "t", "react", <<"x">>, <<"c">>, <<>>,
                               1, "PENDING", 0)],
            None, None, 1>>}

\* the path export_tasks and import_tasks are given
ExportPaths == {"export.yaml"}

UpdateTaskCalls ==
    {<<n, a[1], a[2], a[3]>> :
        n \in TaskNames,
        a \in {<<Some("e"), None, None>>, <<None, Some("u"), Some(2)>>,
               <<None, None, Some(0)>>}}

UpdateStatusCalls ==
    {<<n, a[1], a[2]>> :
        n \in TaskNames,
        a \in {<<(<<"TaskStatus", "IN_PROGRESS">>), Some("n")>>,
               <<(<<"TaskStatus", "FAILED">>), None>>,
               <<(<<"TaskStatus", "FAILED">>), Some("")>>,
               <<(<<"str", "in_progress">>), None>>,
               <<(<<"str", "invalid_status">>), Some("n")>>}}

ExecutionResults == {"ok", "Error: x"}

\* calls made on the bank of the manager
ManagerBankCalls == {<<"progress.md", "Task", "bar", "append">>}

----------------------------------------------------------------------------
(* The dependency command of prompt_manager/cli/base_commands.py.  Every   *)
(* command obtains a manager that loads the stored tasks, works on them    *)
(* and saves them; the manager the commands are written for (tasks with a   *)
(* title and a dependencies list, get_task returning nothing for a missing *)
(* title, _save_tasks) is described by the specification document.          *)

\* the titles the commands are given
CliTitles == {"A", "B", "C"}

\* add(task): a new task has no dependencies; a title in use is refused
cli_add_task(title) ==
    /\ last' = <<"add_task", title>>
    /\ IF title \in DOMAIN cli_tasks
       THEN /\ err' = "DuplicateTaskError"
            /\ UNCHANGED cli_tasks
       ELSE /\ err' = "none"
            /\ cli_tasks' = [t \in (DOMAIN cli_tasks) \cup {title} |->
                                IF t = title THEN [dependencies |-> <<>>]
                                ELSE cli_tasks[t]]
    /\ UNCHANGED <<impl, files, is_active, current_tokens, nupd, base, mgr>>

\* x in list
InList(x, list) == \E i \in DOMAIN list : list[i] = x

\* mutant of DependencyError: only the task's own list is looked at
DependencyErrorOwnListOnly(ts, task_title, dependency_title) ==
    IF task_title \notin DOMAIN ts \/ dependency_title \notin DOMAIN ts
    THEN "Task not found"
    ELSE IF InList(dependency_title, ts[task_title].dependencies)
    THEN "Circular dependency detected"
    ELSE "none"

\* the error add_dependency raises on the tasks ts, or "none"
DependencyError(ts, task_title, dependency_title) ==
    IF task_title \notin DOMAIN ts \/ dependency_title \notin DOMAIN ts
    THEN "Task not found"
    ELSE IF \/ InList(dependency_title, ts[task_title].dependencies)
            \/ InList(task_title, ts[dependency_title].dependencies)
    THEN "Circular dependency detected"
    ELSE "none"

\* manager._save_tasks(): the tasks of the manager become the stored tasks
SavedTasks(ts) == ts

add_dependency(task_title, dependency_title) ==
    /\ last' = <<"add_dependency", task_title, dependency_title>>
    /\ err' = DependencyError(cli_tasks, task_title, dependency_title)
    /\ IF err' # "none"
       THEN UNCHANGED cli_tasks
       ELSE cli_tasks' =
                SavedTasks([cli_tasks EXCEPT ![task_title].dependencies =
                                                 Append(@, dependency_title)])
    /\ UNCHANGED <<impl, files, is_active, current_tokens, nupd, base, mgr>>

----------------------------------------------------------------------------
(* The commands of prompt_manager/cli/__init__.py.  Each run builds its own
   manager with get_manager(), which loads tasks.yaml, and ends the process
   with an exit code. *)

\* a command that ended before get_manager() was called
CommandRefused(call, exception, code) ==
    /\ impl = "pkg"
    /\ now < MaxCalls
    /\ now' = now + 1
    /\ err' = exception
    /\ last' = call
    /\ exit_code' = code
    /\ out' = <<>>
    /\ UNCHANGED <<impl, files, is_active, current_tokens, nupd, base, tasks,
                   store, cli_tasks>>

\* a command that called get_manager() and left the manager's store as ts,
\* the data files as st, and wrote the lines output to standard output
CommandRun(call, ts, st, exception, code, output) ==
    /\ impl = "pkg"
    /\ now < MaxCalls
    /\ now' = now + 1
    /\ files' = InitializedFiles(files)
    /\ is_active' = TRUE
    /\ current_tokens' = 0
    /\ tasks' = ts
    /\ store' = st
    /\ err' = exception
    /\ last' = call
    /\ exit_code' = code
    /\ out' = output
    /\ UNCHANGED <<impl, nupd, cli_tasks>>
    /\ base' = TotalLen(files') - current_tokens'

\* str(value) of an optional argument
Str(opt) == IF opt = None THEN "None" ELSE opt[1]

\* the paths that exist, for init --path
ExistingPaths == {"."}

\* init: a missing path exits 1; on an existing path the manager is built
\* and manager.init_project is looked up, which PromptManager does not define
command_init(path) ==
    LET call == <<"init", path>>
    IN  IF path \notin ExistingPaths
        THEN CommandRefused(call, "PathMissing", 1)
        ELSE CommandRun(call, load_tasks(store, <<>>), store, "AttributeError", 1,
                        <<>>)

\* the parameters of Task.__init__ of prompt_manager/__init__.py
TaskParameters == {"name", "description", "prompt_template", "priority", "status"}

\* the exception of a Task(...) call with these keyword arguments, or "none"
TaskCallError(keywords) ==
    IF keywords \subseteq TaskParameters THEN "none" ELSE "TypeError"

\* the priority words click accepts for add-task
PriorityChoices == {"low", "medium", "high"}

\* add-task TITLE [DESCRIPTION] [--template T] [--priority P]
command_add_task(title, description, template, priority) ==
    LET call == <<"add-task", title, description, template, priority>>
        loaded == load_tasks(store, <<>>)
        debug == <<"Debug: Getting manager with project_dir=.",
                   "Debug: Creating task with title=" \o title
                       \o ", description=" \o Str(description)
                       \o ", template=" \o Str(template)
                       \o ", priority=" \o priority>>
        created == TaskCallError({"title", "description", "template", "priority"})
    IN  IF priority \notin PriorityChoices
        THEN CommandRefused(call, "UsageError", 2)
        ELSE IF created # "none"
        THEN CommandRun(call, loaded, store, created, 2,
                        debug \o <<"Debug: Exception type: <class '" \o created
                                       \o "'>">>)
        ELSE LET task == Task(title, Str(description), Str(template), priority,
                              "PENDING", now + 1)
                 stored == Put(loaded, title, task)
             IN  CommandRun(call, stored, save_tasks(store, stored), "none", 0,
                            debug \o <<"Debug: Task object created successfully",
                                       "Task '" \o title \o "' added successfully">>)

\* update-progress TITLE STATUS [--note N]; STATUS is one of the TaskStatus values
command_update_progress(title, status, note) ==
    LET call == <<"update-progress", title, status, note>>
        loaded == load_tasks(store, <<>>)
    IN  IF ~IsStatusValue(status)
        THEN CommandRefused(call, "UsageError", 2)
        ELSE IF title \notin Names(loaded)
        THEN CommandRun(call, loaded, store, "KeyError", 2, <<>>)
        ELSE LET stored == Put(loaded, title,
                               update_status(Get(loaded, title),
                                             TaskStatusOf(status), note, now + 1))
             IN  CommandRun(call, stored, save_tasks(store, stored), "none", 0,
                            <<"Task '" \o title \o "' status updated to " \o status>>)

\* {1: 'low', 2: 'medium', 3: 'high'}.get(priority, 'medium')
PriorityWord(priority) ==
    IF priority = 1 THEN "low"
    ELSE IF priority = 3 THEN "high"
    ELSE "medium"

\* the lines list-tasks prints for one task
RECURSIVE NoteLines(_)
NoteLines(notes) ==
    IF notes = <<>> THEN <<>>
    ELSE <<"  - " \o Head(notes)>> \o NoteLines(Tail(notes))

TaskLines(task) ==
    <<"\nTask: " \o task.title>>
    \o (IF task.description # "" THEN <<"Description: " \o task.description>>
        ELSE <<>>)
    \o <<"Status: " \o TaskStatus[task.status],
         "Priority: " \o PriorityWord(task.priority)>>
    \o (IF task.status_notes # <<>> THEN <<"Notes:">> \o NoteLines(task.status_notes)
        ELSE <<>>)

\* the loop of list-tasks over the tasks ts: the lines printed, and the
\* exception that ended the loop ("none" if it ran to the end); a task
\* without an attribute title ends it with AttributeError
RECURSIVE ListOutput(_)
ListOutput(ts) ==
    IF ts = <<>> THEN [lines |-> <<>>, exception |-> "none"]
    ELSE IF "title" \notin DOMAIN Head(ts)
    THEN [lines |-> <<>>, exception |-> "AttributeError"]
    ELSE LET rest == ListOutput(Tail(ts))
         IN  [lines |-> TaskLines(Head(ts)) \o rest.lines,
              exception |-> rest.exception]

command_list_tasks ==
    LET call == <<"list-tasks">>
        loaded == load_tasks(store, <<>>)
        listed == ListOutput(loaded)
    IN  IF loaded = <<>>
        THEN CommandRun(call, loaded, store, "none", 0, <<"No tasks found">>)
        ELSE CommandRun(call, loaded, store, listed.exception,
                        IF listed.exception = "none" THEN 0 ELSE 1, listed.lines)

\* the command lines tried
InitPaths == {".", "missing"}

AddTaskCommands ==
    {<<"A", Some("desc"), None, "high">>, <<"", Some("desc"), None, "medium">>,
     <<"B", None, Some("t"), "low">>, <<"A", Some("desc"), None, "urgent">>}

UpdateProgressCommands ==
    {<<n, "completed", None>> : n \in TaskNames}
        \cup {<<"A", "failed", Some("n")>>, <<"A", "bogus", None>>}

\* delete_task(title): the task is taken out of the store and the store is
\* saved; the dependency lists of the other tasks are not looked at
cli_delete_task(title) ==
    /\ last' = <<"delete_task", title>>
    /\ IF title \notin DOMAIN cli_tasks
       THEN /\ err' = "KeyError"
            /\ UNCHANGED cli_tasks
       ELSE /\ err' = "none"
            /\ cli_tasks' = SavedTasks([t \in (DOMAIN cli_tasks) \ {title} |->
                                           cli_tasks[t]])
    /\ UNCHANGED <<impl, files, is_active, current_tokens, nupd, base, mgr>>

----------------------------------------------------------------------------
(* Several processes on one project directory.  Each builds a PromptManager
   (which loads tasks.yaml into its own store), calls add_task, which puts
   the task into that store and then rewrites tasks.yaml from it.  Nothing
   locks the file between the steps of different processes. *)

Procs == {1, 2}

\* a process that has not started: no manager yet
NoProc == [pc |-> "idle", tasks |-> <<>>, name |-> "", result |-> "none"]

\* get_manager(): PromptManager(project_dir, memory_path) loads tasks.yaml
proc_load(p) ==
    /\ procs[p].pc \in {"idle", "done"}
    /\ now < MaxCalls
    /\ now' = now + 1
    /\ procs' = [procs EXCEPT ![p] = [pc |-> "loaded",
                                      tasks |-> load_tasks(store, <<>>),
                                      name |-> "", result |-> "none"]]
    /\ last' = <<"PromptManager", p>>
    /\ UNCHANGED <<impl, files, is_active, current_tokens, err, nupd, base,
                   tasks, store, cli_tasks, cmd>>

\* add_task(name, "d", "t", 1) up to self.tasks[name] = task
proc_add_task(p, name) ==
    /\ procs[p].pc = "loaded"
    /\ procs' = [procs EXCEPT ![p] =
                    IF name \in Names(procs[p].tasks)
                    THEN [@ EXCEPT !.pc = "done", !.name = name,
                                   !.result = "ValueError"]
                    ELSE [@ EXCEPT !.pc = "added", !.name = name,
                                   !.tasks = Put(@, name,
                                                 Task(name, "d", "t", 1,
                                                      "PENDING", now))]]
    /\ last' = <<"add_task", p, name>>
    /\ UNCHANGED <<impl, files, is_active, current_tokens, err, nupd, base,
                   mgr, cli_tasks, cmd>>

\* the self.save_tasks() that ends add_task, and its return
proc_save_tasks(p) ==
    /\ procs[p].pc = "added"
    /\ store' = save_tasks(store, procs[p].tasks)
    /\ procs' = [procs EXCEPT ![p].pc = "done", ![p].result = "success"]
    /\ last' = <<"save_tasks", p>>
    /\ UNCHANGED <<impl, files, is_active, current_tokens, err, nupd, base,
                   tasks, now, cli_tasks, cmd>>

----------------------------------------------------------------------------
(* LLMEnhancement.suggest_pull_request of prompt_manager/llm_enhancement.py.
   A change is a dict of file path -> new content, written here as the
   sequence of its <<path, content>> items in insertion order; changes is a
   list of such dicts. *)

\* the files of the working directory: path -> text
Disk == [path \in {"test.py", ".env"} |->
            IF path = "test.py" THEN "print('old')\n" ELSE "KEY=1\n"]

\* the items of all the dicts of changes, in the order the loops visit them
RECURSIVE Items(_)
Items(changes) ==
    IF changes = <<>> THEN <<>> ELSE Head(changes) \o Items(Tail(changes))

sensitive_patterns ==
    <<".env", "secrets", "credentials", "password", "config/production">>

is_sensitive_file(file_path) ==
    \E i \in DOMAIN sensitive_patterns :
        Find(Lower(file_path), sensitive_patterns[i], 0) >= 0

validate_changes(changes) ==
    /\ changes # <<>>
    /\ \A i \in DOMAIN Items(changes) :
          /\ Items(changes)[i][1] \in DOMAIN Disk
          /\ Strip(Items(changes)[i][2]) # ""

Alnum == LowerLetters \o UpperLetters \o "0123456789"

\* ''.join(c if c.isalnum() or c == ' ' else '' for c in branch)
RECURSIVE KeepAlnumAndSpace(_)
KeepAlnumAndSpace(s) ==
    IF s = "" THEN ""
    ELSE LET c == Slice(s, 0, 1)
         IN  (IF Find(Alnum, c, 0) >= 0 \/ c = " " THEN c ELSE "")
                 \o KeepAlnumAndSpace(Slice(s, 1, Len(s)))

\* _generate_branch_name with uuid4().hex[:8] = unique_id
generate_branch_name(title, unique_id) ==
    LET words == SelectSeq(Split(KeepAlnumAndSpace(Lower(title)), " "),
                           LAMBDA w : w # "")
    IN  "llm-enhancement/" \o Join(words, "-") \o "-" \o unique_id

\* len(f.readlines())
ReadLines(text) ==
    LET pieces == Split(text, "\n")
    IN  IF pieces[Len(pieces)] = "" THEN Len(pieces) - 1 ELSE Len(pieces)

\* d[key] = value on a dict d written as its items in insertion order
RECURSIVE DictSet(_, _, _)
DictSet(d, key, value) ==
    IF d = <<>> THEN << <<key, value>> >>
    ELSE IF Head(d)[1] = key THEN << <<key, value>> >> \o Tail(d)
    ELSE <<Head(d)>> \o DictSet(Tail(d), key, value)

ImpactOf(file_path, content) ==
    LET old_lines == IF file_path \in DOMAIN Disk THEN ReadLines(Disk[file_path])
                     ELSE 0
        new_lines == Len(Split(content, "\n"))
        diff == IF new_lines >= old_lines THEN new_lines - old_lines
                ELSE old_lines - new_lines
    IN  IF diff < 10 THEN "Low impact"
        ELSE IF diff < 50 THEN "Medium impact"
        ELSE "High impact"

RECURSIVE ImpactOver(_, _)
ImpactOver(items, impact) ==
    IF items = <<>> THEN impact
    ELSE ImpactOver(Tail(items),
                    DictSet(impact, Head(items)[1],
                            ImpactOf(Head(items)[1], Head(items)[2])))

analyze_change_impact(changes) == ImpactOver(Items(changes), <<>>)

\* coverage[file_path] = 0.85, in hundredths
RECURSIVE CoverageOver(_, _)
CoverageOver(items, coverage) ==
    IF items = <<>> THEN coverage
    ELSE CoverageOver(Tail(items), DictSet(coverage, Head(items)[1], 85))

calculate_test_coverage(changes) == CoverageOver(Items(changes), <<>>)

generate_reviewer_notes(changes, impact) ==
    [i \in DOMAIN impact |-> "File " \o impact[i][1] \o ": " \o impact[i][2]]
    \o <<"Please review the following aspects:",
         "- Code style and maintainability",
         "- Test coverage and quality",
         "- Performance implications">>

PullRequestSuggestion(title, description, branch_name, changes, impact_analysis, test_coverage, reviewer_notes) ==
    [title |-> title, description |-> description, branch_name |-> branch_name,
     changes |-> changes, impact_analysis |-> impact_analysis,
     test_coverage |-> test_coverage, reviewer_notes |-> reviewer_notes]

\* the values of uuid4().hex[:8] tried
UniqueIds == {"0a1b2c3d", "ffffffff"}

suggest_pull_request(changes, title, description) ==
    /\ now < MaxCalls
    /\ now' = now + 1
    /\ last' = <<"suggest_pull_request", changes, title, description>>
    /\ IF ~validate_changes(changes)
       THEN /\ returned' = None
            /\ UNCHANGED pr_suggestions
       ELSE \E unique_id \in UniqueIds :
               LET impact == analyze_change_impact(changes)
                   suggestion ==
                       PullRequestSuggestion(
                           title, description,
                           generate_branch_name(title, unique_id), changes, impact,
                           calculate_test_coverage(changes),
                           generate_reviewer_notes(changes, impact))
               IN  /\ pr_suggestions' = Append(pr_suggestions, suggestion)
                   /\ returned' = Some(suggestion)
    /\ UNCHANGED <<impl, files, is_active, current_tokens, err, nupd, base,
                   tasks, store, cli_tasks, cmd, procs, py>>

\* the lists of changes tried
ChangeSets ==
    {<<>>,
     << << <<"test.py", "print('new')">> >> >>,
     << << <<"test.py", "  ">> >> >>,
     << << <<"config/production/secrets.py", "secret = 'test'">> >> >>,
     << << <<".env", "KEY=2">> >> >>,
     << << <<"test.py", "a\nb">> >>, << <<".env", "KEY=3">> >> >>}

----------------------------------------------------------------------------
(* The PromptManager of prompt_manager/manager.py, with the Task it is
   written for (title, prompt_template, priority word: prompt_manager/models.py).
   Task ids are given as titles. *)

\* Task(title, description, priority, status, prompt_template) built at time t
PyTask(title, description, priority, status, prompt_template, t) ==
    [title |-> title, description |-> description, priority |-> priority,
     status |-> status, prompt_template |-> prompt_template, notes |-> <<>>,
     created_at |-> t, updated_at |-> t]

\* Task.to_dict
py_to_dict(task) ==
    [title |-> task.title, description |-> task.description,
     priority |-> task.priority, status |-> TaskStatus[task.status],
     prompt_template |-> task.prompt_template, notes |-> task.notes,
     created_at |-> isoformat(task.created_at),
     updated_at |-> isoformat(task.updated_at)]

\* Task.from_dict
py_from_dict(data) ==
    [title |-> data.title, description |-> data.description,
     priority |-> data.priority, status |-> TaskStatusOf(data.status),
     prompt_template |-> data.prompt_template, notes |-> data.notes,
     created_at |-> fromisoformat(data.created_at),
     updated_at |-> fromisoformat(data.updated_at)]

Titles(ts) == {ts[i].title : i \in DOMAIN ts}

\* ts[title]
TaskOf(ts, title) == ts[CHOOSE i \in DOMAIN ts : ts[i].title = title]

\* ts[title] = task
SetTask(ts, title, task) ==
    IF title \in Titles(ts)
    THEN [i \in DOMAIN ts |-> IF ts[i].title = title THEN task ELSE ts[i]]
    ELSE Append(ts, task)

\* PromptManager.load_tasks: the records of tasks.yaml, none of which has a
\* framework, put into the dict ts by title
RECURSIVE py_load_tasks(_, _)
py_load_tasks(tasks_data, ts) ==
    IF tasks_data = <<>> THEN ts
    ELSE py_load_tasks(Tail(tasks_data),
                       SetTask(ts, Head(tasks_data).title,
                               py_from_dict(Head(tasks_data))))

\* PromptManager.save_tasks: the list written to tasks.yaml
py_save_tasks(ts) == [i \in DOMAIN ts |-> py_to_dict(ts[i])]

PriorityWords == {"low", "medium", "high"}

\* a call on the manager that raised: nothing is saved
PyCall(call, ts, file, exception) ==
    /\ now < MaxCalls
    /\ now' = now + 1
    /\ py_tasks' = ts
    /\ py_file' = file
    /\ err' = exception
    /\ last' = call
    /\ UNCHANGED <<impl, files, is_active, current_tokens, nupd, base,
                   tasks, store, cli_tasks, cmd, procs, llm>>

\* PromptManager(): a new manager loads tasks.yaml
manager_new == PyCall(<<"manager.PromptManager">>, py_load_tasks(py_file, <<>>),
                      py_file, "none")

manager_add_task(title, description, template, priority) ==
    LET call == <<"manager.add_task", title, description, template, priority>>
        task == PyTask(title, description, priority, "PENDING",
                       IF template = None THEN "" ELSE template[1], now + 1)
        added == SetTask(py_tasks, title, task)
    IN  IF title \in Titles(py_tasks) \/ priority \notin PriorityWords
        THEN PyCall(call, py_tasks, py_file, "ValueError")
        ELSE PyCall(call, added, py_save_tasks(added), "none")

\* the task after the first two assignments of update_task: the description
\* and the template are assigned before the priority is tested
WithDetails(task, description, template) ==
    [task EXCEPT !.description = IF description = None THEN @ ELSE description[1],
                 !.prompt_template = IF template = None THEN @ ELSE template[1]]

manager_update_task(task_id, description, template, priority) ==
    LET call == <<"manager.update_task", task_id, description, template, priority>>
    IN  IF task_id \notin Titles(py_tasks)
        THEN PyCall(call, py_tasks, py_file, "KeyError")
        ELSE LET task == TaskOf(py_tasks, task_id)
                 edited == WithDetails(task, description, template)
             IN  IF priority # None /\ priority[1] \notin PriorityWords
                 THEN PyCall(call, SetTask(py_tasks, task_id, edited), py_file,
                             "ValueError")
                 ELSE LET updated ==
                              SetTask(py_tasks, task_id,
                                      [edited EXCEPT !.priority =
                                           IF priority = None THEN @
                                           ELSE priority[1]])
                      IN  PyCall(call, updated, py_save_tasks(updated), "none")

manager_delete_task(task_id) ==
    LET call == <<"manager.delete_task", task_id>>
        kept == SelectSeq(py_tasks, LAMBDA t : t.title # task_id)
    IN  IF task_id \notin Titles(py_tasks)
        THEN PyCall(call, py_tasks, py_file, "KeyError")
        ELSE PyCall(call, kept, py_save_tasks(kept), "none")

\* the calls tried
PyAddCalls ==
    {<<t, "d", Some("t"), "medium">> : t \in TaskNames}
        \cup {<<"A", "d", None, "urgent">>}

PyUpdateCalls ==
    {<<"A", Some("new"), None, Some("high")>>,
     <<"A", Some("new"), Some("t2"), Some("urgent")>>,
     <<"A", None, None, Some("urgent")>>,
     <<"B", None, Some("t2"), None>>}

----------------------------------------------------------------------------
(* Specification *)

Init ==
    /\ impl \in Impls
    /\ files = << >>
    /\ is_active = FALSE
    /\ current_tokens = 0
    /\ err = "none"
    /\ last = <<"new">>
    /\ nupd = 0
    /\ base = 0
    /\ tasks = <<>>
    /\ store = << >>
    /\ now = 0
    /\ cli_tasks = << >>
    /\ exit_code = 0
    /\ out = <<>>
    /\ procs = << >>
    /\ pr_suggestions = <<>>
    /\ returned = <<>>
    /\ py_tasks = <<>>
    /\ py_file = <<>>

NextPkg ==
    \/ NewBank
    \/ initialize
    \/ \E a \in BankCalls : update_context(a[1], a[2], a[3], a[4])
    \/ \E n \in TokenCounts : increment_tokens(n)
    \/ \E n \in TokenCounts : decrement_tokens(n)
    \/ reset
    \/ \E t \in PlanTasks : update_project_plan(t)

NextMemory ==
    \/ memory_initialize
    \/ \E a \in MemoryCalls : memory_update_context(a[1], a[2], a[3], a[4])
    \/ \E t \in TaskTitles, d \in TaskDescriptions, p \in TaskPriorities :
           memory_update_task(t, d, p)
    \/ memory_reset

NextMemoryBank ==
    \/ memory_bank_initialize
    \/ \E a \in MemoryBankCalls : memory_bank_update_context(a[1], a[2], a[3], a[4])
    \/ memory_bank_reset

\* a process that works with a MemoryBank alone has no manager and no task store
Next ==
    /\ NextPkg \/ NextMemory \/ NextMemoryBank
    /\ UNCHANGED <<mgr, cli_tasks, cmd, procs, llm, py>>

\* every MemoryBank class, through its whole life
Spec == Init /\ [][Next]_vars

\* the section editor of prompt_manager/__init__.py on one file
InitEditor == Init /\ impl = "pkg"

NextEditor ==
    /\ \/ NewBank
       \/ initialize
       \/ \E a \in EditorCalls : update_context(a[1], a[2], a[3], a[4])
    /\ UNCHANGED <<mgr, cli_tasks, cmd, procs, llm, py>>

SpecEditor == InitEditor /\ [][NextEditor]_vars

\* the state after PromptManager("P") on an empty directory
InitManager ==
    /\ impl = "pkg"
    /\ files = InitializedFiles(<< >>)
    /\ is_active = TRUE
    /\ current_tokens = 0
    /\ err = "none"
    /\ last = <<"PromptManager">>
    /\ nupd = 0
    /\ base = TotalLen(files)
    /\ tasks = <<>>
    /\ store = << >>
    /\ now = 0
    /\ cli_tasks = << >>
    /\ exit_code = 0
    /\ out = <<>>
    /\ procs = << >>
    /\ pr_suggestions = <<>>
    /\ returned = <<>>
    /\ py_tasks = <<>>
    /\ py_file = <<>>

ManagerCall ==
    \/ NewPromptManager
    \/ \E a \in AddTaskCalls : add_task(a[1], a[2], a[3], a[4])
    \/ \E n \in TaskNames : add_task_to_project(n, "d", "t")
    \/ \E a \in UpdateTaskCalls : update_task(a[1], a[2], a[3], a[4])
    \/ \E a \in UpdateStatusCalls : update_task_status(a[1], a[2], a[3])
    \/ \E n \in TaskNames : update_progress(n, "COMPLETED", Some("n"))
    \/ \E n \in TaskNames : delete_task(n)
    \/ \E n \in TaskNames : get_task(n)
    \/ \E p \in ExportPaths : export_tasks(p)
    \/ \E p \in ExportPaths : import_tasks(p)
    \/ \E n \in TaskNames, r \in ExecutionResults : execute_task(n, r)
    \/ /\ \E a \in ManagerBankCalls : update_context(a[1], a[2], a[3], a[4])
       /\ now < MaxCalls
       /\ now' = now + 1
       /\ UNCHANGED <<tasks, store, cli_tasks>>

NextManager == ManagerCall /\ UNCHANGED <<cmd, procs, llm, py>>

\* one PromptManager of prompt_manager/__init__.py at a time on one directory
SpecManager == InitManager /\ [][NextManager]_vars

\* the task commands on an empty task store
InitCli == Init /\ impl = "pkg"

NextCli ==
    /\ \/ \E t \in CliTitles : cli_add_task(t)
       \/ \E t \in CliTitles, d \in CliTitles : add_dependency(t, d)
       \/ \E t \in CliTitles : cli_delete_task(t)
    /\ UNCHANGED <<cmd, procs, llm, py>>

SpecCli == InitCli /\ [][NextCli]_vars

\* the commands of prompt_manager/cli/__init__.py on a directory that a
\* PromptManager also adds tasks to
NextCommands ==
    /\ \/ (\E a \in AddTaskCalls : add_task(a[1], a[2], a[3], a[4]))
          /\ UNCHANGED cmd
       \/ \E p \in InitPaths : command_init(p)
       \/ \E a \in AddTaskCommands : command_add_task(a[1], a[2], a[3], a[4])
       \/ \E a \in UpdateProgressCommands :
             command_update_progress(a[1], a[2], a[3])
       \/ command_list_tasks
    /\ UNCHANGED <<procs, llm, py>>

SpecCommands == InitManager /\ [][NextCommands]_vars

\* two processes on an empty project directory
InitRace ==
    /\ impl = "pkg"
    /\ files = InitializedFiles(<< >>)
    /\ is_active = TRUE
    /\ current_tokens = 0
    /\ err = "none"
    /\ last = <<"new">>
    /\ nupd = 0
    /\ base = TotalLen(files)
    /\ tasks = <<>>
    /\ store = << >>
    /\ now = 0
    /\ cli_tasks = << >>
    /\ exit_code = 0
    /\ out = <<>>
    /\ procs = [p \in Procs |-> NoProc]
    /\ pr_suggestions = <<>>
    /\ returned = <<>>
    /\ py_tasks = <<>>
    /\ py_file = <<>>

NextRace ==
    /\ \/ \E p \in Procs : proc_load(p)
       \/ \E p \in Procs, n \in TaskNames : proc_add_task(p, n)
       \/ \E p \in Procs : proc_save_tasks(p)
    /\ UNCHANGED <<llm, py>>

SpecRace == InitRace /\ [][NextRace]_vars

\* one LLMEnhancement, asked for pull request suggestions
NextSuggest ==
    \E c \in ChangeSets : suggest_pull_request(c, "Test PR!", "Test description")

InitSuggest == Init /\ impl = "pkg"

SpecSuggest == InitSuggest /\ [][NextSuggest]_vars

\* one PromptManager of prompt_manager/manager.py at a time on one directory
NextManagerPy ==
    \/ manager_new
    \/ \E a \in PyAddCalls : manager_add_task(a[1], a[2], a[3], a[4])
    \/ \E a \in PyUpdateCalls : manager_update_task(a[1], a[2], a[3], a[4])
    \/ \E t \in TaskNames : manager_delete_task(t)

InitManagerPy == Init /\ impl = "pkg"

SpecManagerPy == InitManagerPy /\ [][NextManagerPy]_vars

----------------------------------------------------------------------------
(* How a memory file reads as a document: a sequence of sections, each     *)
(* introduced by a line "## <name>" and running to the next "## " line or  *)
(* the end of the file.  Blank lines at the end of a section separate it   *)
(* from the next one and are not part of its content.                      *)

Lines(text) == Split(text, "\n")

IsHeaderLine(line) == StartsWith(line, "## ")

RECURSIVE TrimBlank(_)
TrimBlank(ls) ==
    IF ls # <<>> /\ ls[Len(ls)] = "" THEN TrimBlank(SubSeq(ls, 1, Len(ls) - 1)) ELSE ls

\* the sections of a text, in order: [name, body] with body a sequence of lines
SectionList(text) ==
    LET ls == Lines(text)
        heads == {i \in 1..Len(ls) : IsHeaderLine(ls[i])}
        EndOf(i) == LET later == {j \in heads : j > i}
                    IN  IF later = {} THEN Len(ls) ELSE SetMin(later) - 1
        RECURSIVE From(_)
        From(i) ==
            IF i > Len(ls) THEN <<>>
            ELSE IF i \in heads
            THEN <<[name |-> Slice(ls[i], 3, Len(ls[i])),
                    body |-> TrimBlank(SubSeq(ls, i + 1, EndOf(i)))]>> \o From(i + 1)
            ELSE From(i + 1)
    IN  From(1)

\* the sections of a text named name
Named(text, name) ==
    LET Is(x) == x.name = name IN SelectSeq(SectionList(text), Is)

\* the sections of a text not named name
Others(text, name) ==
    LET IsNot(x) == x.name # name IN SelectSeq(SectionList(text), IsNot)

\* line a occurs in body before line b
InOrder(body, a, b) ==
    \E i, j \in 1..Len(body) : i < j /\ body[i] = a /\ body[j] = b

\* number of places where sub occurs in s
Occurrences(s, sub) ==
    Cardinality({i \in 0..(Len(s) - Len(sub)) : Slice(s, i, i + Len(sub)) = sub})

\* the required files of the class in use
Required ==
    IF impl = "pkg" THEN RequiredSet
    ELSE IF impl = "memory" THEN MemoryRequiredSet
    ELSE MemoryBankRequiredSet

\* some initialize() call, of whichever class is in use
AnyInitialize == initialize \/ memory_initialize \/ memory_bank_initialize

----------------------------------------------------------------------------
(* Claims *)

\* C1: update_context(file, S, X, mode="replace") on an active bank, from any
\* reachable file state, leaves exactly one "## S" block, whose content is
\* exactly X, and leaves every other section of the file as it was.
C1_ReplaceLeavesOneExactBlock ==
    [][\A a \in EditorCalls :
          (/\ is_active
           /\ a[4] = "replace"
           /\ update_context(a[1], a[2], a[3], a[4])
           /\ err' = "none")
          => /\ Len(Named(files'[a[1]], a[2])) = 1
             /\ Named(files'[a[1]], a[2])[1].body = Lines(a[3])
             /\ Others(files'[a[1]], a[2]) = Others(files[a[1]], a[2])]_vars

\* C2: with a section "Task Details" in the file, update_context for section
\* "Task" (append or replace) leaves the "Task Details" block as it was and
\* puts the new content into a separate "## Task" block.
C2_PrefixNameEditsOwnBlock ==
    [][\A a \in EditorCalls :
          (/\ is_active
           /\ a[2] = "Task"
           /\ Len(Named(files[a[1]], "Task Details")) = 1
           /\ update_context(a[1], a[2], a[3], a[4])
           /\ err' = "none")
          => /\ Named(files'[a[1]], "Task Details") = Named(files[a[1]], "Task Details")
             /\ Len(Named(files'[a[1]], "Task")) = 1
             /\ LET body == Named(files'[a[1]], "Task")[1].body
                IN  body # <<>> /\ body[Len(body)] = a[3]]_vars

\* C3: two consecutive append calls for the same section, with "bar" and then
\* "baz", on an active bank leave the file with exactly one header of that
\* section, whose block holds "bar" followed by "baz".
C3_TwoAppendsOneBlockInOrder ==
    [][\A a \in EditorCalls :
          (/\ is_active
           /\ err = "none"
           /\ last = <<"update_context", a[1], a[2], "bar", "append">>
           /\ a[3] = "baz" /\ a[4] = "append"
           /\ update_context(a[1], a[2], a[3], a[4])
           /\ err' = "none")
          => /\ Len(Named(files'[a[1]], a[2])) = 1
             /\ InOrder(Named(files'[a[1]], a[2])[1].body, "bar", "baz")]_vars

\* C4: memory.py: after update_task(title, ...) on an active bank the file
\* progress.md holds, for that task, only what this call wrote: one
\* "## Task: <title>" record, the one of this call.
C4_UpdateTaskLeavesOnlyLastContent ==
    [][\A t \in TaskTitles, d \in TaskDescriptions, p \in TaskPriorities :
          (/\ is_active
           /\ memory_update_task(t, d, p)
           /\ err' = "none")
          => /\ Occurrences(files'["progress.md"], "\n## Task: " \o t \o "\n") = 1
             /\ Occurrences(files'["progress.md"],
                            "\n## Task_" \o t \o "\n" \o TaskContent(t, d, p)) = 1]_vars

\* C5: memory.py and memory_bank.py: no memory file ever holds two section
\* headers with the same name (an append to an existing section adds to its
\* block and writes no second header).
C5_SectionNamesUnique ==
    impl \in {"memory", "memory_bank"}
    => \A f \in DOMAIN files : \A name \in Sections \cup {"Foo"} :
           Len(Named(files[f], name)) <= 1

\* C6: initialize() on a bank whose required files all exist and hold content
\* leaves the content of each of them unchanged, and the bank active.
C6_InitializeKeepsPopulatedFiles ==
    [][(/\ AnyInitialize
        /\ \A n \in Required : n \in DOMAIN files /\ Strip(files[n]) # "")
       => /\ is_active'
          /\ \A n \in Required : n \in DOMAIN files' /\ files'[n] = files[n]]_vars

\* memory.py: a state reached by initialize() on files that hold sections
C6_Witness ==
    /\ impl = "memory"
    /\ last = <<"initialize">>
    /\ is_active
    /\ \E n \in Required : n \in DOMAIN files /\ SectionList(files[n]) # <<>>

\* C7: __init__.py: while is_active, every required file exists; right after
\* initialize each of them starts with "# <name without .md>" and a blank line.
C7_ActiveBankHasRequiredFiles ==
    impl = "pkg" =>
        /\ is_active => RequiredSet \subseteq DOMAIN files
        /\ last = <<"initialize">> =>
               \A n \in RequiredSet :
                   n \in DOMAIN files
                   /\ StartsWith(files[n], "# " \o Slice(n, 0, Len(n) - 3) \o "\n\n")

\* an active bank that was reset and initialized again
C7_Witness ==
    /\ impl = "pkg"
    /\ is_active
    /\ last = <<"initialize">>
    /\ nupd > 0
    /\ files["productContext.md"] = "# productContext\n\n"

\* C8: __init__.py: while is_active is false, update_context with any
\* arguments changes no file (and creates none), raises nothing and leaves
\* current_tokens as it was.
C8_InactiveUpdateIsNoOp ==
    [][\A a \in BankCalls :
          (/\ impl = "pkg"
           /\ ~is_active
           /\ update_context(a[1], a[2], a[3], a[4]))
          => /\ files' = files
             /\ current_tokens' = current_tokens
             /\ err' = "none"]_vars

\* update_context was called on an inactive bank for a file that is there
C8_Witness ==
    /\ impl = "pkg"
    /\ ~is_active
    /\ Len(last) = 5 /\ last[1] = "update_context"
    /\ last[2] \in DOMAIN files

\* C9: __init__.py: update_context on an active bank with a file_name that is
\* not a required file fails with an error and changes no file and no counter.
C9_OnlyRequiredFilesAccepted ==
    [][\A a \in BankCalls :
          (/\ impl = "pkg"
           /\ is_active
           /\ a[1] \notin RequiredSet
           /\ update_context(a[1], a[2], a[3], a[4]))
          => /\ err' # "none"
             /\ files' = files
             /\ current_tokens' = current_tokens]_vars

----------------------------------------------------------------------------
(* Claims about the PromptManager of prompt_manager/__init__.py *)

C12_ResetThenInitializeGivesHeaders ==
    [][/\ (impl = "pkg" /\ reset)
          => /\ ~is_active'
             /\ current_tokens' = 0
             /\ RequiredSet \cap DOMAIN files' = {}
       /\ (impl = "pkg" /\ last = <<"reset">> /\ initialize)
          => /\ is_active'
             /\ \A f \in RequiredSet :
                   /\ f \in DOMAIN files'
                   /\ files'[f] = "# " \o Slice(f, 0, Len(f) - 3) \o "\n\n"
                   /\ SectionList(files'[f]) = <<>>]_vars

\* a bank that had sections written, after reset() and initialize()
C12_Witness ==
    /\ impl = "pkg"
    /\ last = <<"initialize">>
    /\ nupd > 0
    /\ \A f \in RequiredSet : f \in DOMAIN files /\ SectionList(files[f]) = <<>>

\* C13: every operation that adds a task (add_task, add_task_to_project)
\* fails when a task with the same name is already in the store, and leaves
\* the existing record and the stored files as they were.
C13_DuplicateNameIsRefused ==
    [][/\ \A a \in AddTaskCalls :
             (/\ (IF a[1].kind = "Task" THEN a[1].task.name ELSE a[1].name)
                     \in Names(tasks)
              /\ add_task(a[1], a[2], a[3], a[4]))
             => /\ err' = "ValueError"
                /\ tasks' = tasks
                /\ store' = store
       /\ \A n \in TaskNames :
             (n \in Names(tasks) /\ add_task_to_project(n, "d", "t"))
             => /\ err' # "none"
                /\ tasks' = tasks
                /\ store' = store]_vars

\* the store as a mapping from names to tasks
AsMap(ts) == [n \in Names(ts) |-> Get(ts, n)]

\* the operations of the manager that change the store
MutatingCalls ==
    {"add_task", "add_task_to_project", "update_task", "update_task_status",
     "update_progress", "delete_task", "execute_task"}

\* C17: after a mutating operation of the manager has completed, a
\* PromptManager newly constructed on the same directory loads exactly the
\* tasks the first manager holds, with the same field values.
C17_NewManagerLoadsSameTasks ==
    (impl = "pkg" /\ last[1] \in MutatingCalls /\ err = "none")
    => AsMap(load_tasks(store, <<>>)) = AsMap(tasks)

\* C18: every task in the store has a priority of at least 1, in every state
\* reached by add_task, update_task, update_task_status and delete_task; an
\* update_task call that supplies a priority below 1 fails and changes
\* nothing.
C18_PriorityStaysValid ==
    [][/\ impl' = "pkg" => \A i \in DOMAIN tasks' : tasks'[i].priority >= 1
       /\ \A a \in UpdateTaskCalls :
             (/\ a[1] \in Names(tasks)
              /\ a[4] # None
              /\ a[4][1] < 1
              /\ update_task(a[1], a[2], a[3], a[4]))
             => /\ err' = "ValueError"
                /\ tasks' = tasks
                /\ store' = store]_vars

\* C19: update_task_status takes the new status as a TaskStatus member or as
\* a string that names one by its value; in both cases the call succeeds and
\* the task's status becomes that member.  A string that names no member
\* raises ValueError and leaves the task and the stored files unchanged.
C19_StatusGivenAsMemberOrString ==
    [][\A a \in UpdateStatusCalls :
          (a[1] \in Names(tasks) /\ update_task_status(a[1], a[2], a[3]))
          => IF a[2][1] = "TaskStatus"
             THEN err' = "none" /\ Get(tasks', a[1]).status = a[2][2]
             ELSE IF IsStatusValue(a[2][2])
             THEN err' = "none" /\ Get(tasks', a[1]).status = TaskStatusOf(a[2][2])
             ELSE err' = "ValueError" /\ tasks' = tasks /\ store' = store]_vars

\* C20: every mutation of a task sets its updated_at to the time of the call:
\* after update_task or update_task_status has succeeded, the task's
\* updated_at is not earlier than the start of the call, nor than created_at.
C20_MutationSetsUpdatedAt ==
    [][/\ \A a \in UpdateTaskCalls :
             (update_task(a[1], a[2], a[3], a[4]) /\ err' = "none")
             => /\ Get(tasks', a[1]).updated_at >= now'
                /\ Get(tasks', a[1]).updated_at >= Get(tasks', a[1]).created_at
       /\ \A a \in UpdateStatusCalls :
             (update_task_status(a[1], a[2], a[3]) /\ err' = "none")
             => /\ Get(tasks', a[1]).updated_at >= now'
                /\ Get(tasks', a[1]).updated_at >= Get(tasks', a[1]).created_at]_vars

----------------------------------------------------------------------------
(* Claims about the dependency graph *)

\* the titles the task t depends on directly
Deps(ts, t) ==
    IF t \in DOMAIN ts
    THEN {ts[t].dependencies[i] : i \in DOMAIN ts[t].dependencies}
    ELSE {}

\* the titles reached from the set S in at most n further steps
RECURSIVE ReachFrom(_, _, _)
ReachFrom(ts, S, n) ==
    IF n = 0 THEN S
    ELSE ReachFrom(ts, S \cup UNION {Deps(ts, x) : x \in S}, n - 1)

\* a depends on b, directly or through a chain of dependencies
Reaches(ts, a, b) == b \in ReachFrom(ts, Deps(ts, a), Cardinality(DOMAIN ts))

Acyclic(ts) == \A t \in DOMAIN ts : ~Reaches(ts, t, t)

----------------------------------------------------------------------------
(* Further claims about the PromptManager of prompt_manager/__init__.py *)

\* C21: a status update appends a note only when a non-empty note is given.
\* A call of update_task_status (or update_progress) with no note, None or
\* the empty string, leaves the task's status_notes as it was, however often
\* it is made; a call with a non-empty note appends exactly one entry that
\* contains the note, at the end, and keeps the earlier entries in order.
C21_NoteAppendedOnlyWhenGiven ==
    [][/\ \A a \in UpdateStatusCalls :
             (update_task_status(a[1], a[2], a[3]) /\ err' = "none")
             => LET before == Get(tasks, a[1]).status_notes
                    after == Get(tasks', a[1]).status_notes
                IN  IF a[3] \in {None, Some("")}
                    THEN after = before
                    ELSE /\ Len(after) = Len(before) + 1
                         /\ SubSeq(after, 1, Len(before)) = before
                         /\ Find(after[Len(after)], a[3][1], 0) # -1
       /\ \A n \in TaskNames :
             (update_progress(n, "COMPLETED", Some("n")) /\ err' = "none")
             => LET before == Get(tasks, n).status_notes
                    after == Get(tasks', n).status_notes
                IN  /\ Len(after) = Len(before) + 1
                    /\ SubSeq(after, 1, Len(before)) = before
                    /\ Find(after[Len(after)], "n", 0) # -1]_vars

\* a second note has been appended after the first
C21_Witness ==
    /\ last[1] = "update_task_status"
    /\ err = "none"
    /\ last[4] = Some("n")
    /\ Len(Get(tasks, last[2]).status_notes) = 2

\* C22: get_task, update_task, update_task_status and delete_task with a
\* name that is not in the store fail with KeyError and leave the store and
\* the stored files unchanged; after delete_task(name) has succeeded the
\* name is not in the store (get_task(name) fails) and every other task is
\* unchanged.
C22_MissingNameIsNotFound ==
    [][/\ \A n \in TaskNames :
             (/\ n \notin Names(tasks)
              /\ \/ get_task(n)
                 \/ delete_task(n)
                 \/ \E a \in UpdateTaskCalls :
                       a[1] = n /\ update_task(a[1], a[2], a[3], a[4])
                 \/ \E a \in UpdateStatusCalls :
                       a[1] = n /\ update_task_status(a[1], a[2], a[3]))
             => /\ err' = "KeyError"
                /\ tasks' = tasks
                /\ store' = store
       /\ \A n \in TaskNames :
             (delete_task(n) /\ err' = "none")
             => /\ Names(tasks') = Names(tasks) \ {n}
                /\ \A m \in Names(tasks') : Get(tasks', m) = Get(tasks, m)]_vars

\* get_task has failed for a name that was stored and deleted
C22_Witness ==
    /\ last[1] = "get_task"
    /\ err = "KeyError"
    /\ "tasks.yaml" \in DOMAIN store
    /\ last[2] \notin DOMAIN store["tasks.yaml"]
    /\ tasks = <<>>

\* C23: export_tasks writes a document with the project name and one record
\* per stored task, and import_tasks of that document into a manager with an
\* empty store gives a store with the same task names, each task equal to
\* the exported one in every field, the extra fields of a BoltTask included.
C23_ExportImportRoundTrip ==
    (impl = "pkg" /\ last[1] = "export_tasks" /\ err = "none")
    => LET document == store[last[2]]
       IN  /\ document.project_name = ProjectName
           /\ Len(document.tasks) = Len(tasks)
           /\ AsMap(Imported(document.tasks, <<>>)) = AsMap(tasks)

\* the words that say how a command ended
CommandNames == {"init", "add-task", "update-progress", "list-tasks"}

\* C24: every command exits with 0 on success, with 1 when the error is a
\* missing resource or a bad path (update-progress on a title that is not
\* stored), and with 2 when the error is an invalid argument or a validation
\* failure (add-task with an empty title).
C24_ExitCodeTellsErrorKind ==
    last[1] \in CommandNames
    => /\ err = "none" => exit_code = 0
       /\ err \in {"KeyError", "PathMissing"} => exit_code = 1
       /\ err \in {"ValueError", "UsageError"} => exit_code = 2
       /\ (last[1] = "add-task" /\ last[2] = "") => exit_code = 2

\* whether some line of the output contains the word
Contains(lines, word) == \E i \in DOMAIN lines : Find(lines[i], word, 0) >= 0

\* C25: list-tasks prints the title and the priority word of every stored
\* task; run after add-task A desc --priority high, its output contains A
\* and high.
C25_ListShowsTitleAndPriority ==
    [][command_list_tasks
       => /\ \A i \in DOMAIN tasks' :
                /\ Contains(out', tasks'[i].name)
                /\ Contains(out', PriorityWord(tasks'[i].priority))
          /\ last = <<"add-task", "A", Some("desc"), None, "high">>
             => Contains(out', "A") /\ Contains(out', "high")]_vars

\* the names in the task file
StoredNames == IF "tasks.yaml" \in DOMAIN store THEN DOMAIN store["tasks.yaml"] ELSE {}

\* C26: nothing locks the task file, so the last writer wins: the file a
\* process has just saved holds exactly the tasks of that process's own
\* store, whatever other processes saved since it loaded.  Hence with two
\* processes that load, add tasks of different names and save, a run is
\* reachable in which both add_task calls returned and the file holds only
\* one of the two tasks.
C26_LastWriterWins ==
    last[1] = "save_tasks"
    => /\ procs[last[2]].result = "success"
       /\ StoredNames = Names(procs[last[2]].tasks)
       /\ AsMap(load_tasks(store, <<>>)) = AsMap(procs[last[2]].tasks)

C26_Witness ==
    /\ \A p \in Procs : procs[p].pc = "done" /\ procs[p].result = "success"
    /\ procs[1].name # procs[2].name
    /\ now = Cardinality(Procs)
    /\ Cardinality(StoredNames) = 1
    /\ StoredNames \subseteq {procs[1].name, procs[2].name}

\* whether some file of the changes is a sensitive one
TouchesSensitive(changes) ==
    \E i \in DOMAIN Items(changes) : is_sensitive_file(Items(changes)[i][1])

\* C27: a list of changes that touches a sensitive file (a path containing
\* .env, secrets, credentials, password or config/production) is never
\* accepted: _validate_changes is False for it, suggest_pull_request returns
\* None and pr_suggestions holds no suggestion with such a file, whether or
\* not the file exists.
C27_SensitiveChangesRefused ==
    /\ (last[1] = "suggest_pull_request" /\ TouchesSensitive(last[2]))
       => ~validate_changes(last[2]) /\ returned = None
    /\ \A i \in DOMAIN pr_suggestions : ~TouchesSensitive(pr_suggestions[i].changes)

\* C28: current_tokens of the MemoryBank of prompt_manager/__init__.py is
\* never negative, whatever initialize, update_context, increment_tokens,
\* decrement_tokens and reset did, a replace with shorter content on a bank
\* made over files that hold content included.
C28_TokensNeverNegative ==
    impl = "pkg" => current_tokens >= 0

\* C29: an update_task call of the manager of prompt_manager/manager.py that
\* fails for an invalid priority leaves the task exactly as it was, the
\* description and the prompt_template keep their values even when new ones
\* were passed, and the store in memory still equals the stored task file.
C29_FailedUpdateChangesNothing ==
    [][\A a \in PyUpdateCalls :
          (manager_update_task(a[1], a[2], a[3], a[4]) /\ err' = "ValueError")
          => /\ py_tasks' = py_tasks
             /\ py_save_tasks(py_tasks') = py_file']_vars

====
